---- MODULE Spec2Model ----
(***************************************************************************)
(* lint_wpt_root (blinkpy/presubmit/common_checks.py): filter the changed  *)
(* paths, build the `wpt lint` command line, run it as a child process,    *)
(* delete the temporary paths file, map the exit code to a result.         *)
(*                                                                         *)
(* Text (paths, file contents) is a sequence of one-character strings;     *)
(* the child's output is a sequence of bytes (0..255).                     *)
(***************************************************************************)
EXTENDS Integers, Sequences, FiniteSets, TLC

\* ------------------------------------------------------------------ bounds
MaxDepth == 2       \* components in an absolute path
MaxChanges == 2     \* paths in the change set
MaxOut == 1         \* bytes the child writes to each of stdout, stderr
MaxExit == 2        \* largest exit code of the child

\* ------------------------------------------------------- the environment
\* Directory and file names of the checkout.  A normalised absolute path has
\* no "." or ".." component, but a name may well end in dots.
Names == { <<"w">>, <<"w", ".", ".">> }

RECURSIVE CompSeqs(_)
CompSeqs(n) ==
    IF n = 0 THEN { <<>> }
    ELSE LET S == CompSeqs(n - 1)
         IN  S \cup { Append(s, c) : s \in { t \in S : Len(t) = n - 1 }, c \in Names }

RECURSIVE join(_)
\* os.path.join of the components, under the file-system root
join(comps) ==
    IF comps = <<>> THEN <<>>
    ELSE <<"/">> \o Head(comps) \o join(Tail(comps))

\* the absolute, normalised paths of the model
AbsPaths == { join(c) : c \in CompSeqs(MaxDepth) \ { <<>> } }

RECURSIVE SeqsUpTo(_, _)
SeqsUpTo(S, n) ==
    IF n = 0 THEN { <<>> }
    ELSE LET T == SeqsUpTo(S, n - 1)
         IN  T \cup { Append(t, x) : t \in { u \in T : Len(u) = n - 1 }, x \in S }

\* the byte values the child can write: "a", and the two bytes of U+00E9
Bytes == { 97, 195, 169 }
ExitCodes == 0 .. MaxExit

None == "None"
PresubmitLocalPath == <<"/", "w">>
RepositoryRoot == "/src"
python3_executable == "python3"

\* names in the temporary directory; TmpTaken is there before the call
TmpNames == { "tmpA", "tmpB", "tmpC" }
TmpTaken == "tmpB"
Absent == [exists |-> FALSE, text |-> <<>>]
InitFs == [n \in TmpNames |->
             IF n = TmpTaken THEN [exists |-> TRUE, text |-> <<"w">>] ELSE Absent]

\* ------------------------------------------------------- pure functions
RECURSIVE Str(_)
\* a text as one command-line string
Str(s) == IF s = <<>> THEN "" ELSE Head(s) \o Str(Tail(s))

RECURSIVE split(_, _)
\* str.split('/') without the empty components; cur is the component being read
split(s, cur) ==
    IF s = <<>> THEN (IF cur = <<>> THEN <<>> ELSE <<cur>>)
    ELSE IF Head(s) = "/"
         THEN (IF cur = <<>> THEN <<>> ELSE <<cur>>) \o split(Tail(s), <<>>)
         ELSE split(Tail(s), Append(cur, Head(s)))

RECURSIVE commonLen(_, _)
\* len(commonprefix([start_list, path_list]))
commonLen(a, b) ==
    IF a = <<>> \/ b = <<>> \/ Head(a) # Head(b) THEN 0
    ELSE 1 + commonLen(Tail(a), Tail(b))

RECURSIVE sepJoin(_)
\* '/'.join(rel_list)
sepJoin(l) ==
    IF l = <<>> THEN <<>>
    ELSE IF Len(l) = 1 THEN Head(l)
    ELSE Head(l) \o <<"/">> \o sepJoin(Tail(l))

\* posixpath.relpath(path, start) on absolute normalised arguments
relpath(path, start) ==
    LET start_list == split(start, <<>>)
        path_list  == split(path, <<>>)
        i          == commonLen(start_list, path_list)
        rel_list   == [k \in 1 .. (Len(start_list) - i) |-> <<".", ".">>]
                        \o SubSeq(path_list, i + 1, Len(path_list))
    IN  IF rel_list = <<>> THEN <<".">> ELSE sepJoin(rel_list)

\* str.endswith
endswith(s, t) ==
    /\ Len(t) <= Len(s)
    /\ SubSeq(s, Len(s) - Len(t) + 1, Len(s)) = t

\* the test of line 19
keep(abs_path, root) == endswith(abs_path, relpath(abs_path, root))

RECURSIVE filterPaths(_, _)
\* the loop of lines 17-20
filterPaths(changed, root) ==
    IF changed = <<>> THEN <<>>
    ELSE (IF keep(Head(changed), root) THEN <<Head(changed)>> ELSE <<>>)
            \o filterPaths(Tail(changed), root)

RECURSIVE decodable(_)
\* bytes.decode() raises UnicodeDecodeError unless the bytes are UTF-8
decodable(b) ==
    IF b = <<>> THEN TRUE
    ELSE IF Head(b) < 128 THEN decodable(Tail(b))
    ELSE IF Head(b) \in 194 .. 223 /\ Len(b) >= 2 /\ b[2] \in 128 .. 191
         THEN decodable(Tail(Tail(b)))
    ELSE FALSE

RECURSIVE decode(_)
\* bytes.decode(): the code points of a UTF-8 byte string
decode(b) ==
    IF b = <<>> THEN <<>>
    ELSE IF Head(b) < 128 THEN <<Head(b)>> \o decode(Tail(b))
    ELSE <<(Head(b) - 192) * 64 + (b[2] - 128)>> \o decode(Tail(Tail(b)))

wpt_root == RepositoryRoot \o "/third_party/wpt_tools/wpt"
wpt_executable == wpt_root \o "/wpt"

\* the argument list of lines 24-40
baseArgs(root) ==
    << python3_executable, wpt_executable, "--venv=" \o wpt_root,
       "--skip-venv-setup", "lint", "--repo-root=" \o Str(root),
       "--ignore-glob=*-expected.txt", "--ignore-glob=*.ini",
       "--ignore-glob=*DIR_METADATA", "--ignore-glob=*OWNERS",
       "--ignore-glob=config.tmpl.json" >>

pathsFileArg(name) == "--paths-file=" \o name

\* the message of line 67 (its back quotes are written as quotes here)
LintFailed == "'wpt lint' failed:"

\* output_api.PresubmitError(message, long_text=...)
PresubmitError(message, long_text) ==
    [type |-> "PresubmitError", message |-> message, long_text |-> long_text]

\* ------------------------------------------------------------------ state
VARIABLES
    pc,            \* where the invocation is
    changed,       \* input_api.AbsoluteLocalPaths()
    repo_root_arg, \* the repo_root parameter; <<>> is None
    is_committing, \* input_api.is_committing
    repo_root,     \* the local repo_root after line 12
    paths,         \* the filtered paths
    args,          \* the argument list
    paths_name,    \* the name of the temporary file, or None
    widx,          \* the next path the loop of line 53 writes
    fbuf,          \* what has been written to f and not yet flushed
    fs,            \* the temporary directory: name -> file
    child,         \* the child process: "none", "running", "exited"
    childArgs,     \* the command line the child was started with
    childOut,      \* what the child wrote: [code, out, err]
    spawned,       \* child processes started by this invocation
    proc,          \* what communicate() returned: [returncode, stdout, stderr]
    pending,       \* the exception in flight through the finally block
    exc,           \* the exception that left the function
    result,        \* the returned list
    events         \* what happened so far, in order

vars == << pc, changed, repo_root_arg, is_committing, repo_root, paths, args,
           paths_name, widx, fbuf, fs, child, childArgs, childOut, spawned,
           proc, pending, exc, result, events >>

\* path lies under root: the components of root are a prefix of the path's
Under(path, root) ==
    LET r == split(root, <<>>)
        p == split(path, <<>>)
    IN  Len(r) <= Len(p) /\ SubSeq(p, 1, Len(r)) = r

\* The changed paths are entries of one checkout: none of them is a directory
\* that holds another changed path, the target root or the local path.  (An
\* entry can be the root itself: a changed submodule.)
Checkout(chg, roots) ==
    \A i \in DOMAIN chg :
        /\ \A j \in DOMAIN chg : chg[i] # chg[j] => ~Under(chg[j], chg[i])
        /\ \A r \in roots : chg[i] # r => ~Under(r, chg[i])

NoProc == [returncode |-> 0, stdout |-> <<>>, stderr |-> <<>>]

\* the state at the call, for the given change sets and repo_root arguments
Start(changeSets, rootArgs) ==
    /\ pc = "filter"
    /\ changed \in changeSets
    /\ repo_root_arg \in rootArgs
    /\ Checkout(changed, { PresubmitLocalPath } \cup ({ repo_root_arg } \ { <<>> }))
    /\ is_committing \in BOOLEAN
    /\ repo_root = <<>>
    /\ paths = <<>>
    /\ args = <<>>
    /\ paths_name = None
    /\ widx = 1
    /\ fbuf = <<>>
    /\ fs = InitFs
    /\ child = "none"
    /\ childArgs = <<>>
    /\ childOut = NoProc
    /\ spawned = 0
    /\ proc = NoProc
    /\ pending = "none"
    /\ exc = "none"
    /\ result = <<>>
    /\ events = <<>>

\* every change set and root over the paths of depth MaxDepth
Init == Start(SeqsUpTo(AbsPaths, MaxChanges), { <<>> } \cup AbsPaths)

\* one checkout: two files under the local path, one under the directory that
\* is passed as repo_root
Files == { join(<< <<"w">>, <<"w">> >>), join(<< <<"w">>, <<"w", ".", ".">> >>),
           join(<< <<"w", ".", ".">>, <<"w">> >>) }
OtherRoot == join(<< <<"w", ".", ".">> >>)
InitTree == Start(SeqsUpTo(Files, MaxChanges), { <<>>, OtherRoot })

\* ---------------------------------------------------------------- actions
Log(e) == events' = Append(events, e)

\* lines 12-22: choose the root, filter the changed paths, return [] if none
Filter ==
    /\ pc = "filter"
    /\ repo_root' = (IF repo_root_arg = <<>> THEN PresubmitLocalPath ELSE repo_root_arg)
    /\ paths' = filterPaths(changed, repo_root')
    /\ IF paths' = <<>>
       THEN /\ pc' = "returned"
            /\ result' = <<>>
            /\ Log("return")
       ELSE /\ pc' = "args"
            /\ UNCHANGED << result, events >>
    /\ UNCHANGED << changed, repo_root_arg, is_committing, args, paths_name, widx,
                    fbuf, fs, child, childArgs, childOut, spawned, proc,
                    pending, exc >>

\* BuildArgs with the commit-time branch lost: the paths file is always used
BuildArgs_alwaysPathsFile ==
    /\ pc = "args"
    /\ args' = baseArgs(repo_root)
    /\ pc' = "mktemp"
    /\ UNCHANGED << changed, repo_root_arg, is_committing, repo_root, paths,
                    paths_name, widx, fbuf, fs, child, childArgs, childOut,
                    spawned, proc, pending, exc, result, events >>

\* lines 24-46: the fixed arguments, and '--all' when committing
BuildArgs ==
    /\ pc = "args"
    /\ IF is_committing
       THEN /\ args' = Append(baseArgs(repo_root), "--all")
            /\ pc' = "popen"
       ELSE /\ args' = baseArgs(repo_root)
            /\ pc' = "mktemp"
    /\ UNCHANGED << changed, repo_root_arg, is_committing, repo_root, paths,
                    paths_name, widx, fbuf, fs, child, childArgs, childOut,
                    spawned, proc, pending, exc, result, events >>

\* lines 50-52: NamedTemporaryFile(delete=False) creates an empty file under
\* a name that is not in use
CreateTemp ==
    /\ pc = "mktemp"
    /\ \E n \in TmpNames :
          /\ ~fs[n].exists
          /\ fs' = [fs EXCEPT ![n] = [exists |-> TRUE, text |-> <<>>]]
          /\ paths_name' = n
          /\ args' = Append(args, pathsFileArg(n))
    /\ fbuf' = <<>>
    /\ widx' = 1
    /\ pc' = "write"
    /\ Log("create")
    /\ UNCHANGED << changed, repo_root_arg, is_committing, repo_root, paths,
                    child, childArgs, childOut, spawned, proc, pending, exc,
                    result >>

\* line 50: NamedTemporaryFile raises (no space, no permission); no file is made
CreateTempRaises ==
    /\ pc = "mktemp"
    /\ pc' = "raised"
    /\ exc' = "tempfile"
    /\ Log("raise")
    /\ UNCHANGED << changed, repo_root_arg, is_committing, repo_root, paths, args,
                    paths_name, widx, fbuf, fs, child, childArgs, childOut,
                    spawned, proc, pending, result >>

\* WritePath with the newline lost
WritePath_noNewline ==
    /\ pc = "write"
    /\ widx <= Len(paths)
    /\ fbuf' = fbuf \o paths[widx]
    /\ widx' = widx + 1
    /\ Log("write")
    /\ UNCHANGED << pc, changed, repo_root_arg, is_committing, repo_root, paths,
                    args, paths_name, fs, child, childArgs, childOut, spawned,
                    proc, pending, exc, result >>

\* lines 53-54: f.write(f'{path}\n') for the next path
WritePath ==
    /\ pc = "write"
    /\ widx <= Len(paths)
    /\ fbuf' = fbuf \o paths[widx] \o <<"\n">>
    /\ widx' = widx + 1
    /\ Log("write")
    /\ UNCHANGED << pc, changed, repo_root_arg, is_committing, repo_root, paths,
                    args, paths_name, fs, child, childArgs, childOut, spawned,
                    proc, pending, exc, result >>

\* line 54 raises: the with block closes f, which flushes what was written;
\* delete=False leaves the file; the try of line 56 is never entered
WriteRaises ==
    /\ pc = "write"
    /\ widx <= Len(paths)
    /\ fs' = [fs EXCEPT ![paths_name].text = fbuf]
    /\ fbuf' = <<>>
    /\ pc' = "raised"
    /\ exc' = "write"
    /\ Log("raise")
    /\ UNCHANGED << changed, repo_root_arg, is_committing, repo_root, paths, args,
                    paths_name, widx, child, childArgs, childOut, spawned, proc,
                    pending, result >>

\* line 50, leaving the with block: f is flushed and closed
CloseTemp ==
    /\ pc = "write"
    /\ widx > Len(paths)
    /\ fs' = [fs EXCEPT ![paths_name].text = fbuf]
    /\ fbuf' = <<>>
    /\ pc' = "popen"
    /\ Log("close")
    /\ UNCHANGED << changed, repo_root_arg, is_committing, repo_root, paths, args,
                    paths_name, widx, child, childArgs, childOut, spawned, proc,
                    pending, exc, result >>

\* lines 57-59: Popen starts the child
Popen ==
    /\ pc = "popen"
    /\ child' = "running"
    /\ childArgs' = args
    /\ spawned' = spawned + 1
    /\ pc' = "communicate"
    /\ Log("spawn")
    /\ UNCHANGED << changed, repo_root_arg, is_committing, repo_root, paths, args,
                    paths_name, widx, fbuf, fs, childOut, proc, pending, exc,
                    result >>

\* lines 57-59: Popen raises (the executable is missing); no child is started
PopenRaises ==
    /\ pc = "popen"
    /\ pending' = "launch"
    /\ pc' = "finally"
    /\ UNCHANGED << changed, repo_root_arg, is_committing, repo_root, paths, args,
                    paths_name, widx, fbuf, fs, child, childArgs, childOut,
                    spawned, proc, exc, result, events >>

\* the child process ends, with an exit code and its two outputs
ChildExit ==
    /\ child = "running"
    /\ child' = "exited"
    /\ \E code \in ExitCodes, out \in SeqsUpTo(Bytes, MaxOut),
          err \in SeqsUpTo(Bytes, MaxOut) :
          childOut' = [returncode |-> code, stdout |-> out, stderr |-> err]
    /\ Log("exit")
    /\ UNCHANGED << pc, changed, repo_root_arg, is_committing, repo_root, paths,
                    args, paths_name, widx, fbuf, fs, childArgs, spawned, proc,
                    pending, exc, result >>

\* Communicate that does not wait for the child to end
Communicate_noWait ==
    /\ pc = "communicate"
    /\ proc' = childOut
    /\ pc' = "finally"
    /\ UNCHANGED << changed, repo_root_arg, is_committing, repo_root, paths, args,
                    paths_name, widx, fbuf, fs, child, childArgs, childOut,
                    spawned, pending, exc, result, events >>

\* Communicate that runs the command once more after a non-zero exit
Communicate_retry ==
    /\ pc = "communicate"
    /\ child = "exited"
    /\ proc' = childOut
    /\ IF childOut.returncode # 0 /\ spawned < 2
       THEN pc' = "popen"
       ELSE pc' = "finally"
    /\ UNCHANGED << changed, repo_root_arg, is_committing, repo_root, paths, args,
                    paths_name, widx, fbuf, fs, child, childArgs, childOut,
                    spawned, pending, exc, result, events >>

\* line 60: communicate() returns once the child has ended
Communicate ==
    /\ pc = "communicate"
    /\ child = "exited"
    /\ proc' = childOut
    /\ pc' = "finally"
    /\ UNCHANGED << changed, repo_root_arg, is_committing, repo_root, paths, args,
                    paths_name, widx, fbuf, fs, child, childArgs, childOut,
                    spawned, pending, exc, result, events >>

\* line 60: communicate() raises (an interrupt); the child may still run
CommunicateRaises ==
    /\ pc = "communicate"
    /\ pending' = "wait"
    /\ pc' = "finally"
    /\ UNCHANGED << changed, repo_root_arg, is_committing, repo_root, paths, args,
                    paths_name, widx, fbuf, fs, child, childArgs, childOut,
                    spawned, proc, exc, result, events >>

\* Finally written as an except block that swallows the exception in flight
Finally_swallow ==
    /\ pc = "finally"
    /\ IF paths_name # None
       THEN /\ fs' = [fs EXCEPT ![paths_name] = Absent]
            /\ Log("delete")
       ELSE /\ fs' = fs
            /\ events' = events
    /\ pc' = "result"
    /\ UNCHANGED << changed, repo_root_arg, is_committing, repo_root, paths, args,
                    paths_name, widx, fbuf, child, childArgs, childOut, spawned,
                    proc, pending, exc, result >>

\* lines 61-63: the finally block; os.remove succeeds, and the exception in
\* flight, if any, goes on to the caller
Finally ==
    /\ pc = "finally"
    /\ IF paths_name # None
       THEN /\ fs' = [fs EXCEPT ![paths_name] = Absent]
            /\ IF pending # "none"
               THEN events' = events \o <<"delete", "raise">>
               ELSE Log("delete")
       ELSE /\ fs' = fs
            /\ IF pending # "none" THEN Log("raise") ELSE events' = events
    /\ IF pending # "none"
       THEN /\ pc' = "raised"
            /\ exc' = pending
       ELSE /\ pc' = "result"
            /\ exc' = exc
    /\ UNCHANGED << changed, repo_root_arg, is_committing, repo_root, paths, args,
                    paths_name, widx, fbuf, child, childArgs, childOut, spawned,
                    proc, pending, result >>

\* line 63: os.remove raises; its exception leaves the function
RemoveRaises ==
    /\ pc = "finally"
    /\ paths_name # None
    /\ pc' = "raised"
    /\ exc' = "remove"
    /\ events' = events \o <<"delete_failed", "raise">>
    /\ UNCHANGED << changed, repo_root_arg, is_committing, repo_root, paths, args,
                    paths_name, widx, fbuf, fs, child, childArgs, childOut,
                    spawned, proc, pending, result >>

\* ReturnResult that reports stdout only
ReturnResult_stdoutOnly ==
    /\ pc = "result"
    /\ proc.returncode # 0 => decodable(proc.stdout)
    /\ result' = IF proc.returncode # 0
                 THEN << PresubmitError(LintFailed, decode(proc.stdout)) >>
                 ELSE <<>>
    /\ pc' = "returned"
    /\ Log("return")
    /\ UNCHANGED << changed, repo_root_arg, is_committing, repo_root, paths, args,
                    paths_name, widx, fbuf, fs, child, childArgs, childOut,
                    spawned, proc, pending, exc >>

\* ReturnResult that takes output on stderr for a failure
ReturnResult_stderrFails ==
    /\ pc = "result"
    /\ decodable(proc.stdout \o proc.stderr)
    /\ result' = IF proc.returncode # 0 \/ proc.stderr # <<>>
                 THEN << PresubmitError(LintFailed,
                                        decode(proc.stdout \o proc.stderr)) >>
                 ELSE <<>>
    /\ pc' = "returned"
    /\ Log("return")
    /\ UNCHANGED << changed, repo_root_arg, is_committing, repo_root, paths, args,
                    paths_name, widx, fbuf, fs, child, childArgs, childOut,
                    spawned, proc, pending, exc >>

\* lines 65-70: the result for the exit code
ReturnResult ==
    /\ pc = "result"
    /\ proc.returncode # 0 => decodable(proc.stdout \o proc.stderr)
    /\ result' = IF proc.returncode # 0
                 THEN << PresubmitError(LintFailed,
                                        decode(proc.stdout \o proc.stderr)) >>
                 ELSE <<>>
    /\ pc' = "returned"
    /\ Log("return")
    /\ UNCHANGED << changed, repo_root_arg, is_committing, repo_root, paths, args,
                    paths_name, widx, fbuf, fs, child, childArgs, childOut,
                    spawned, proc, pending, exc >>

\* line 68: decode() raises UnicodeDecodeError
DecodeRaises ==
    /\ pc = "result"
    /\ proc.returncode # 0
    /\ ~decodable(proc.stdout \o proc.stderr)
    /\ pc' = "raised"
    /\ exc' = "decode"
    /\ Log("raise")
    /\ UNCHANGED << changed, repo_root_arg, is_committing, repo_root, paths, args,
                    paths_name, widx, fbuf, fs, child, childArgs, childOut,
                    spawned, proc, pending, result >>

Next ==
    \/ Filter
    \/ BuildArgs
    \/ CreateTemp
    \/ CreateTempRaises
    \/ WritePath
    \/ WriteRaises
    \/ CloseTemp
    \/ Popen
    \/ PopenRaises
    \/ ChildExit
    \/ Communicate
    \/ CommunicateRaises
    \/ Finally
    \/ RemoveRaises
    \/ ReturnResult
    \/ DecodeRaises

Spec == Init /\ [][Next]_vars

\* the same invocation, in the one checkout of InitTree
SpecTree == InitTree /\ [][Next]_vars

\* ------------------------------------------------------------ properties
Range(f) == { f[i] : i \in DOMAIN f }
Done == pc \in { "returned", "raised" }

\* the root the invocation lints: the explicit repo_root, else the local path
TargetRoot == IF repo_root_arg = <<>> THEN PresubmitLocalPath ELSE repo_root_arg

UnderRoot == SelectSeq(changed, LAMBDA p : Under(p, TargetRoot))

StrictlyUnderRoot ==
    SelectSeq(changed, LAMBDA p : Under(p, TargetRoot) /\ p # TargetRoot)

IsPathsFileArg(a) == a \in { pathsFileArg(n) : n \in TmpNames }

RECURSIVE OnePerLine(_)
\* the given paths, each followed by a newline
OnePerLine(ps) ==
    IF ps = <<>> THEN <<>> ELSE Head(ps) \o <<"\n">> \o OnePerLine(Tail(ps))

\* the paths of the change set the test of line 19 accepts, in order
Accepted == SelectSeq(changed, LAMBDA p : keep(p, TargetRoot))

\* C1: if a temporary paths file was created, it no longer exists at the end
\* of the invocation, on each of these exit paths: return after exit code 0 or
\* non-zero, an exception from launching or waiting for the child, an
\* exception while the paths are written to the file.
C1_TempFileRemovedOnEveryExit ==
    (Done /\ paths_name # None /\ exc \in { "none", "launch", "wait", "write" })
        => ~fs[paths_name].exists

\* C2: when no path of the change set lies under the target root, no child is
\* spawned, no temporary file is created, and the empty result is returned.
C2_NothingUnderRootNoChild ==
    UnderRoot = <<>> =>
        /\ spawned = 0
        /\ child = "none"
        /\ paths_name = None
        /\ fs = InitFs
        /\ pc \in { "filter", "returned" }
        /\ pc = "returned" => result = <<>>

\* C8: the filtered list is exactly the subsequence of the change-set paths
\* that lie under the target root, in order, duplicates kept: no path outside
\* the root is kept, none under it is dropped.  (A path equal to the root may
\* count as under it or not; the statement is taken to hold if it holds under
\* either reading.)
C8_FilterKeepsExactlyUnderRoot ==
    pc # "filter" => (paths = UnderRoot \/ paths = StrictlyUnderRoot)

\* the child was started by this invocation
Spawned == spawned >= 1

C4_ZeroExitEmptyResult ==
    (pc = "returned" /\ Spawned /\ childOut.returncode = 0) => result = <<>>

C4_Witness ==
    /\ pc = "returned"
    /\ Spawned
    /\ childOut.returncode = 0
    /\ childOut.stdout # <<>>
    /\ childOut.stderr # <<>>

\* C5: in a commit-time invocation with a non-empty filtered list, the command
\* passed to the child has '--all' and no '--paths-file=' argument, however
\* many paths were filtered, and no temporary file is created or deleted at
\* any point.
C5_CommitUsesAllNoTempFile ==
    is_committing =>
        /\ Spawned => /\ "--all" \in Range(childArgs)
                      /\ \A a \in Range(childArgs) : ~IsPathsFileArg(a)
        /\ paths_name = None
        /\ fs = InitFs
        /\ Range(events) \cap { "create", "write", "close", "delete",
                                "delete_failed" } = {}

C5_Witness ==
    /\ is_committing
    /\ Len(paths) = 2
    /\ pc = "returned"
    /\ Spawned

\* C6: in a non-commit invocation with a non-empty filtered list, the command
\* passed to the child has no '--all' and exactly one '--paths-file=' argument;
\* it names a file this invocation created, which at the moment the child is
\* spawned holds exactly the filtered paths, one per line, in change-set
\* order; the file no longer exists after the call returns.
C6_UploadUsesPathsFile ==
    (~is_committing /\ Spawned) =>
        /\ "--all" \notin Range(childArgs)
        /\ Cardinality({ i \in DOMAIN childArgs : IsPathsFileArg(childArgs[i]) }) = 1
        /\ paths_name # None
        /\ pathsFileArg(paths_name) \in Range(childArgs)
        /\ ~InitFs[paths_name].exists
        /\ "create" \in Range(events)
        /\ pc = "communicate" =>
              fs[paths_name] = [exists |-> TRUE, text |-> OnePerLine(Accepted)]
        /\ pc = "returned" => ~fs[paths_name].exists

C6_Witness ==
    /\ ~is_committing
    /\ pc = "returned"
    /\ Spawned
    /\ Len(paths) = 2
    /\ paths[1] # paths[2]

\* C7: when launching or waiting for the child raises, the temporary file (if
\* one was created) is deleted first and then the same exception reaches the
\* caller: no result is returned, no error entry is made of it.  When the
\* deletion itself fails, that failure reaches the caller, also after the
\* child exited with code 0.
C7_ExceptionsPropagateAfterCleanup ==
    /\ pending \in { "launch", "wait" } =>
          /\ pc \in { "finally", "raised" }
          /\ result = <<>>
          /\ pc = "raised" =>
                \/ /\ exc = pending
                   /\ paths_name # None => ~fs[paths_name].exists
                   /\ "delete_failed" \notin Range(events)
                \/ /\ exc = "remove"
                   /\ "delete_failed" \in Range(events)
    /\ "delete_failed" \in Range(events) =>
          /\ pc = "raised"
          /\ exc = "remove"
          /\ result = <<>>

C7_Witness ==
    /\ pc = "raised"
    /\ exc = "wait"
    /\ paths_name # None
    /\ ~fs[paths_name].exists

\* the events of a non-commit invocation that returns a result
ExpectedOrder ==
    <<"create">> \o [k \in 1 .. Len(paths) |-> "write"]
        \o <<"close", "spawn", "exit", "delete", "return">>

\* the temporary file is there, with all the filtered paths
FileComplete ==
    /\ paths_name # None
    /\ fs[paths_name] = [exists |-> TRUE, text |-> OnePerLine(Accepted)]

\* C9 as stated: in every non-commit invocation that spawns the child the
\* events are, in order: file created, paths written and file closed, child
\* spawned, child exited, file deleted, result returned; the file is there
\* with its complete contents as long as the child runs.
C9_FileOutlivesChild ==
    (~is_committing /\ Spawned) =>
        /\ child = "running" => FileComplete
        /\ pc = "returned" => events = ExpectedOrder

\* C9, amended: the same, for the invocations whose wait for the child is not
\* ended by an exception.
C9_FileOutlivesChildUnlessWaitRaises ==
    (~is_committing /\ Spawned /\ pending # "wait") =>
        /\ child = "running" => FileComplete
        /\ pc = "returned" => events = ExpectedOrder

C9_Witness ==
    /\ ~is_committing
    /\ pc = "communicate"
    /\ child = "running"
    /\ FileComplete
    /\ Len(paths) = 2

\* temp-file setup succeeded or was not needed: the try block was reached
SetupDone == pc \in { "communicate", "finally", "result", "returned" }
                \/ (pc = "raised" /\ exc \notin { "tempfile", "write" })

\* C10 as stated: at most one child per invocation, and exactly one when the
\* filtered list is non-empty and temp-file setup succeeds; no second spawn
\* after a non-zero exit; no result before the child has exited.
C10_ExactlyOneChild ==
    /\ spawned <= 1
    /\ (paths # <<>> /\ SetupDone) => spawned = 1
    /\ pc = "returned" => child # "running"

\* C10, amended: exactly one child when, moreover, the launch does not raise.
C10_ExactlyOneChildUnlessLaunchRaises ==
    /\ spawned <= 1
    /\ (paths # <<>> /\ SetupDone /\ pending # "launch") => spawned = 1
    /\ pc = "returned" => child # "running"

C10_Witness ==
    /\ pc = "returned"
    /\ spawned = 1
    /\ childOut.returncode # 0
    /\ child = "exited"

====
